---- MODULE Spec2Model ----
(***************************************************************************)
(* agentsmith: the persistent interaction log (AgentHistory, history.rs),  *)
(* the trace record (Trace, trace.rs) and the recall-augmented             *)
(* orchestrator (SmartAgent, smart_agent.rs).                              *)
(*                                                                         *)
(* The database is the pair (sessions, traces).  Every SQL statement and   *)
(* every call of the generation capability is one atomic step; a method    *)
(* that awaits several of them is a chain of steps linked by the caller's  *)
(* position pc[a], so that the stores of other callers interleave exactly  *)
(* at the await points of the code.  Every statement and every generation  *)
(* call may fail (the `?` of the code then returns the error).             *)
(***************************************************************************)
EXTENDS Integers, Sequences, FiniteSets, TLC

(***************************************************************************)
(* Bounds of the model.                                                    *)
(***************************************************************************)
MaxCalls == 2        \* calls started per behaviour, all callers together
MaxLines == 2        \* non-blank lines read by one import_jsonl call
MaxLimit == 1        \* largest n / limit / recall_top_k passed by a caller
MaxEvery == 2        \* largest summarize_every set by a caller

(***************************************************************************)
(* Program constants.                                                      *)
(***************************************************************************)
DefaultRecallTopK == 4
DefaultSummarizeEvery == 20

(***************************************************************************)
(* Small value sets the inputs are drawn from.                             *)
(***************************************************************************)
Callers == {"a1", "a2"}

\* Identifiers: a caller-supplied session id, a generated uuid, or an id read
\* from an imported record.
Sid(n) == <<"sid", n>>
Uuid(n) == <<"uuid", n>>
Generated(n) == <<"generated", n>>
SuppliedSessionIds == {Sid(1)}
NoStore == <<"none", 0>>

\* Option<T>: None is the empty sequence, Some(x) the one-element sequence.
None == << >>
Some(x) == <<x>>

\* A text is a sequence of words; "" is the empty sequence.
EmptyText == << >>
Texts == {EmptyText, <<"x">>, <<"y">>, <<"x", "x">>}
ChatInputs == {EmptyText, <<"x">>}
Replies == {<<"x">>, <<"y">>}
Summaries == {<<"sum1">>, <<"sum2">>}

\* serde_json::Value, tagged by its variant.
JsonTrue == <<"bool", TRUE>>
JsonFalse == <<"bool", FALSE>>
JsonNull == <<"null">>
JsonNum(n) == <<"num", n>>
JsonStr(s) == <<"str", s>>

JsonList(xs) == <<"list", xs>>
JsonObj(members) == <<"obj", members>>

\* HashMap<String, Value>: a function from the keys present to their values.
EmptyMeta == [k \in {} |-> JsonNull]
MetaOf(k, v) == [x \in {k} |-> v]
Metas == {EmptyMeta, MetaOf("success", JsonTrue), MetaOf("success", JsonFalse),
          MetaOf("success", JsonNull)}

(***************************************************************************)
(* Timestamps.  An instant is a number of half-second ticks since the      *)
(* start of the minute; a text is a sequence of character codes.           *)
(***************************************************************************)
\* DateTime::to_rfc3339: two-digit seconds, a fraction only when there is one
\* (SecondsFormat::AutoSi), then the offset, whose first character is '+'.
to_rfc3339(t) ==
    LET sec == t \div 2
    IN  <<48 + (sec \div 10), 48 + (sec % 10)>>
        \o (IF t % 2 = 0 THEN << >> ELSE <<46, 53, 48, 48>>)
        \o <<43>>

\* DateTime::parse_from_rfc3339(..).with_timezone(&Utc)
parse_from_rfc3339(str) ==
    ((str[1] - 48) * 10 + (str[2] - 48)) * 2 + (IF str[3] = 46 THEN 1 ELSE 0)

\* The BINARY collation of a TEXT column: bytewise, a proper prefix first.
TextLess(a, b) ==
    \/ \E i \in 1..Len(a) :
          /\ i <= Len(b)
          /\ a[i] < b[i]
          /\ \A j \in 1..(i - 1) : a[j] = b[j]
    \/ /\ Len(a) < Len(b)
       /\ \A j \in 1..Len(a) : a[j] = b[j]

(***************************************************************************)
(* Metadata as JSON text: the members of the object, in the order written. *)
(***************************************************************************)
MetaKeyOrder == <<"duration_ms", "recalled_traces", "success", "tokens_used">>

\* serde_json::to_string(&trace.metadata)
MetaToJson(m) ==
    LET present(k) == k \in DOMAIN m
        keys == SelectSeq(MetaKeyOrder, present)
    IN  [i \in 1..Len(keys) |-> <<keys[i], m[keys[i]]>>]

\* serde_json::from_str::<HashMap<String, Value>>: the last member of a key wins
MetaFromJson(text) ==
    LET keys == {text[i][1] : i \in 1..Len(text)}
        last(k) == CHOOSE i \in 1..Len(text) :
                      /\ text[i][1] = k
                      /\ \A j \in (i + 1)..Len(text) : text[j][1] # k
    IN  [k \in keys |-> text[last(k)][2]]

(***************************************************************************)
(* Trace (trace.rs).                                                       *)
(***************************************************************************)
\* Trace::new, given the uuid and the clock reading it draws
TraceNew(id, now, session_id, role, content) ==
    [id |-> id, session_id |-> session_id, role |-> role, content |-> content,
     metadata |-> EmptyMeta, created_at |-> now, embedding |-> None]

with_metadata(trace, metadata) == [trace EXCEPT !.metadata = metadata]

get_metadata(trace, key) ==
    IF key \in DOMAIN trace.metadata THEN Some(trace.metadata[key]) ELSE None

\* Value::as_bool
as_bool(v) == IF v[1] = "bool" THEN Some(v[2]) ELSE None

\* is_success defaulting to false
is_success_strict(trace) ==
    LET v == get_metadata(trace, "success")
    IN  v # None /\ as_bool(v[1]) = Some(TRUE)

\* is_success taking a value that is no boolean for a failure
is_success_nonbool_fails(trace) ==
    LET v == get_metadata(trace, "success")
    IN  IF v = None THEN TRUE
        ELSE IF as_bool(v[1]) = None THEN FALSE
        ELSE as_bool(v[1])[1]

\* metadata.get("success").and_then(|v| v.as_bool()).unwrap_or(true)
is_success(trace) ==
    LET v == get_metadata(trace, "success")
    IN  IF v = None THEN TRUE
        ELSE IF as_bool(v[1]) = None THEN TRUE
        ELSE as_bool(v[1])[1]

\* self.metadata.insert(key, value)
add_metadata(trace, key, value) ==
    [trace EXCEPT !.metadata =
        [k \in DOMAIN trace.metadata \cup {key} |->
           IF k = key THEN value ELSE trace.metadata[k]]]

\* Message { role, content }
Message(role, content) == [role |-> role, content |-> content]

trace_to_message(trace) == Message(trace.role, trace.content)

(***************************************************************************)
(* Rows of the traces table.                                               *)
(***************************************************************************)
\* the values log_trace binds to its INSERT
TraceToRow(trace) ==
    [id |-> trace.id, session_id |-> trace.session_id, role |-> trace.role,
     content |-> trace.content, metadata |-> MetaToJson(trace.metadata),
     created_at |-> to_rfc3339(trace.created_at), embedding |-> trace.embedding]

row_to_trace(row) ==
    [id |-> row.id, session_id |-> row.session_id, role |-> row.role,
     content |-> row.content, metadata |-> MetaFromJson(row.metadata),
     created_at |-> parse_from_rfc3339(row.created_at),
     embedding |-> row.embedding]

(***************************************************************************)
(* The database: sessions maps the id of every session row to the row,     *)
(* traces lists the rows of the traces table in insertion (rowid) order.   *)
(***************************************************************************)
VARIABLES sessions, traces, clock, uuid, session_id, agent, pc, frame, ret,
          budget, hist

vars == <<sessions, traces, clock, uuid, session_id, agent, pc, frame, ret,
          budget, hist>>

Min(a, b) == IF a < b THEN a ELSE b

Take(seq, n) == SubSeq(seq, 1, Min(n, Len(seq)))

Reverse(seq) == [i \in 1..Len(seq) |-> seq[Len(seq) + 1 - i]]

\* The orders in which a SELECT may return the rows S when `before` holds the
\* pairs its ORDER BY decides: rows the ORDER BY leaves tied come in any order.
RECURSIVE Orderings(_, _)
Orderings(S, before) ==
    IF S = {} THEN {<< >>}
    ELSE UNION {{<<m>> \o rest : rest \in Orderings(S \ {m}, before)} :
                m \in {x \in S : \A y \in S : <<y, x>> \notin before}}

RowsAt(order) == [i \in 1..Len(order) |-> traces[order[i]]]

Traces(rows) == [i \in 1..Len(rows) |-> row_to_trace(rows[i])]

\* the SELECT of recent without its WHERE clause
RecentSelect_unscoped(sid, n) ==
    LET S == 1..Len(traces)
        before == {p \in S \X S :
                     TextLess(traces[p[2]].created_at, traces[p[1]].created_at)}
    IN  {Take(RowsAt(o), n) : o \in Orderings(S, before)}

\* SELECT .. FROM traces WHERE session_id = ? ORDER BY created_at DESC LIMIT ?
RecentSelect(sid, n) ==
    LET S == {i \in 1..Len(traces) : traces[i].session_id = sid}
        before == {p \in S \X S :
                     TextLess(traces[p[2]].created_at, traces[p[1]].created_at)}
    IN  {Take(RowsAt(o), n) : o \in Orderings(S, before)}

\* recent without its final reverse
recent_unreversed(sid, n) == {Traces(rows) : rows \in RecentSelect(sid, n)}

\* AgentHistory::recent: the results the call may return
recent(sid, n) == {Reverse(Traces(rows)) : rows \in RecentSelect(sid, n)}

\* the messages of the rows as selected, newest first
recent_messages_newest_first(sid, n) ==
    {[i \in 1..Len(ts) |-> trace_to_message(ts[i])] :
        ts \in recent_unreversed(sid, n)}

\* AgentHistory::recent_messages
recent_messages(sid, n) ==
    {[i \in 1..Len(ts) |-> trace_to_message(ts[i])] : ts \in recent(sid, n)}

\* The full-text index over trace content: a row matches a query when every
\* word of the query occurs in its content.
FtsMatch(content, query) ==
    \A i \in 1..Len(query) : \E j \in 1..Len(content) : content[j] = query[i]

\* The relevance of a matching row: the occurrences of the query's words.
FtsScore(content, query) ==
    Cardinality({j \in 1..Len(content) :
                   \E i \in 1..Len(query) : content[j] = query[i]})

\* The engine's rank column: the better match has the smaller rank.
FtsRank(content, query) == 0 - FtsScore(content, query)

\* the SELECT of search with ORDER BY rank, t.created_at (ascending)
SearchSelect_oldest_first(query, limit) ==
    LET S == {i \in 1..Len(traces) : FtsMatch(traces[i].content, query)}
        rank(i) == FtsRank(traces[i].content, query)
        before == {p \in S \X S :
                     \/ rank(p[1]) < rank(p[2])
                     \/ /\ rank(p[1]) = rank(p[2])
                        /\ TextLess(traces[p[1]].created_at,
                                    traces[p[2]].created_at)}
    IN  {Take(RowsAt(o), limit) : o \in Orderings(S, before)}

\* SELECT .. FROM traces t JOIN traces_fts fts ON t.rowid = fts.rowid
\* WHERE traces_fts MATCH ? ORDER BY rank, t.created_at DESC LIMIT ?
SearchSelect(query, limit) ==
    LET S == {i \in 1..Len(traces) : FtsMatch(traces[i].content, query)}
        rank(i) == FtsRank(traces[i].content, query)
        before == {p \in S \X S :
                     \/ rank(p[1]) < rank(p[2])
                     \/ /\ rank(p[1]) = rank(p[2])
                        /\ TextLess(traces[p[2]].created_at,
                                    traces[p[1]].created_at)}
    IN  {Take(RowsAt(o), limit) : o \in Orderings(S, before)}

\* the loop of search over the fetched rows
SuccessFilter(ts, success_only) ==
    LET keep(t) == (~success_only) \/ is_success(t)
    IN  SelectSeq(ts, keep)

\* search filtering before it limits
search_filter_first(sid, query, limit, success_only) ==
    IF query = EmptyText
    THEN recent(sid, limit)
    ELSE {Take(SuccessFilter(Traces(rows), success_only), limit) :
            rows \in SearchSelect(query, Len(traces))}

\* search filtering what the empty query falls back to
search_filter_fallback(sid, query, limit, success_only) ==
    IF query = EmptyText
    THEN {SuccessFilter(ts, success_only) : ts \in recent(sid, limit)}
    ELSE {SuccessFilter(Traces(rows), success_only) :
            rows \in SearchSelect(query, limit)}

\* AgentHistory::search: the results the call may return
search(sid, query, limit, success_only) ==
    IF query = EmptyText
    THEN recent(sid, limit)
    ELSE {SuccessFilter(Traces(rows), success_only) :
            rows \in SearchSelect(query, limit)}

(***************************************************************************)
(* Callers.  session_id[a] is the session the store of caller a is bound   *)
(* to, agent[a] the SmartAgent wrapped around that store, pc[a] the        *)
(* statement a's running call awaits next and frame[a] the call's locals.  *)
(* ret is the last return of a call; budget, hist and the fields `logged`   *)
(* and `args` (the arguments of the call) are bookkeeping the program does *)
(* not have.                                                               *)
(***************************************************************************)
\* auto is bookkeeping: the counts at which chat has invoked summarization
NoAgent == [built |-> FALSE, recall_top_k |-> 0, summarize_every |-> 0,
            turn_count |-> 0, auto |-> << >>]

IdleFrame ==
    [call |-> "none", input |-> EmptyText, stage |-> "none",
     relevant |-> << >>, context |-> << >>, trace |-> None,
     response |-> EmptyText, transcript |-> << >>, summary |-> EmptyText,
     lines |-> << >>, count |-> 0, logged |-> << >>, summarized |-> "no",
     args |-> << >>]

NoRet == [caller |-> "none", call |-> "none", ok |-> TRUE, err |-> "none",
          val |-> << >>, frame |-> IdleFrame]

NoHist == [written |-> << >>, pending |-> 0, clean |-> TRUE]

HistOf(sid) == IF sid \in DOMAIN hist THEN hist[sid] ELSE NoHist

Init ==
    /\ sessions = [s \in {} |-> 0]
    /\ traces = << >>
    /\ clock = 0
    /\ uuid = 0
    /\ session_id = [a \in Callers |-> NoStore]
    /\ agent = [a \in Callers |-> NoAgent]
    /\ pc = [a \in Callers |-> "idle"]
    /\ frame = [a \in Callers |-> IdleFrame]
    /\ ret = NoRet
    /\ budget = MaxCalls
    /\ hist = [s \in {} |-> NoHist]

\* The call of caller a returns: Ok(val) or Err(err).
Return(a, f, ok, err, val) ==
    /\ pc' = [pc EXCEPT ![a] = "idle"]
    /\ frame' = [frame EXCEPT ![a] = IdleFrame]
    /\ ret' = [caller |-> a, call |-> f.call, ok |-> ok, err |-> err,
               val |-> val, frame |-> f]

Ok(a, f, val) == Return(a, f, TRUE, "none", val)
Err(a, f, err) == Return(a, f, FALSE, err, << >>)

Opened(a) == session_id[a] # NoStore
Idle(a) == Opened(a) /\ pc[a] = "idle"

(***************************************************************************)
(* AgentHistory::new                                                       *)
(***************************************************************************)
\* INSERT OR REPLACE INTO sessions: the row is written anew
InsertOrIgnoreSession_replacing(sid) ==
    (sid :> [updated_at |-> clock, summary |-> None]) @@ sessions

\* INSERT OR IGNORE INTO sessions (id, updated_at) VALUES (?, datetime('now'))
InsertOrIgnoreSession(sid) ==
    IF sid \in DOMAIN sessions THEN sessions
    ELSE (sid :> [updated_at |-> clock, summary |-> None]) @@ sessions

\* uuid::Uuid::new_v4() for a session: an id no store was opened with
FreshSessionId ==
    Generated(Cardinality({a \in Callers : session_id[a][1] = "generated"}))

\* supplied is Some(id) or None; connecting, migrating or the INSERT may fail
Open(a, supplied, ok) ==
    LET sid == IF supplied = None THEN FreshSessionId ELSE supplied[1]
        f == [IdleFrame EXCEPT !.call = "new", !.input = supplied]
    IN  /\ ~Opened(a)
        /\ IF ok
           THEN /\ sessions' = InsertOrIgnoreSession(sid)
                /\ session_id' = [session_id EXCEPT ![a] = sid]
                /\ Ok(a, f, sid)
           ELSE /\ Err(a, f, "Database")
                /\ UNCHANGED <<sessions, session_id>>
        /\ UNCHANGED <<traces, clock, uuid, agent, budget, hist>>

(***************************************************************************)
(* AgentHistory::log_turn and log_trace                                    *)
(***************************************************************************)
\* what callers pass to log_turn
Roles == {"user", "assistant"}
LogInputs ==
    {<<Message("user", <<"x">>), EmptyMeta>>,
     <<Message("user", <<"x", "x">>), MetaOf("success", JsonFalse)>>,
     <<Message("assistant", <<"x">>), MetaOf("success", JsonTrue)>>,
     <<Message("assistant", <<"y">>), MetaOf("success", JsonNull)>>}

\* an insert that keeps one row for each session
InsertTrace_replacing(trace) ==
    LET others(row) == row.session_id # trace.session_id
    IN  Append(SelectSeq(traces, others), TraceToRow(trace))

\* an insert that stamps the row with a time of its own
InsertTrace_restamped(trace) ==
    Append(traces, TraceToRow([trace EXCEPT !.created_at = clock + 2]))

\* log_trace: INSERT INTO traces (..) VALUES (..)
InsertTrace(trace) == Append(traces, TraceToRow(trace))

\* UPDATE sessions SET updated_at = datetime('now'), with no WHERE
TouchSession_every_session(sid) ==
    [s \in DOMAIN sessions |-> [sessions[s] EXCEPT !.updated_at = clock]]

\* UPDATE sessions SET updated_at = datetime('now') WHERE id = ?
TouchSession(sid) ==
    IF sid \in DOMAIN sessions
    THEN [sessions EXCEPT ![sid].updated_at = clock]
    ELSE sessions

\* a trace built for one session whatever the store is bound to
NewTurn_one_session(a, message, metadata) ==
    with_metadata(TraceNew(Uuid(uuid), clock, Sid(1), message.role,
                           message.content), metadata)

\* the trace log_turn builds: Trace::new(..).with_metadata(metadata)
NewTurn(a, message, metadata) ==
    with_metadata(TraceNew(Uuid(uuid), clock, session_id[a], message.role,
                           message.content), metadata)

\* bookkeeping: a log_turn has inserted its trace / has returned
HistInsert(sid, trace) ==
    (sid :> [HistOf(sid) EXCEPT !.written = Append(@, trace),
                                !.pending = @ + 1]) @@ hist
HistReturn(sid, ok) ==
    (sid :> [HistOf(sid) EXCEPT !.pending = @ - 1,
                                !.clean = @ /\ ok]) @@ hist
HistOther(sid) == (sid :> [HistOf(sid) EXCEPT !.clean = FALSE]) @@ hist

\* log_turn up to its first await: the trace is built and inserted
LogInsert(a, f, message, metadata, ok, next) ==
    LET trace == NewTurn(a, message, metadata)
    IN  /\ IF ok
           THEN /\ traces' = InsertTrace(trace)
                /\ uuid' = uuid + 1
                /\ clock' = clock + 1
                /\ hist' = HistInsert(session_id[a], trace)
                /\ pc' = [pc EXCEPT ![a] = next]
                /\ frame' = [frame EXCEPT ![a] =
                                [f EXCEPT !.trace = Some(trace),
                                          !.logged = Append(@, trace)]]
                /\ ret' = NoRet
           ELSE /\ Err(a, f, "Database")
                /\ UNCHANGED <<traces, uuid, clock, hist>>

\* log_turn(message, metadata), called on the store directly
LogTurn(a, message, metadata, ok) ==
    /\ Idle(a)
    /\ budget > 0
    /\ budget' = budget - 1
    /\ LogInsert(a, [IdleFrame EXCEPT !.call = "log_turn",
                                      !.args = <<message, metadata>>],
                 message, metadata, ok, "touch")
    /\ UNCHANGED <<sessions, session_id, agent>>

\* a log_turn in one transaction: a failing UPDATE takes the trace back
LogTurnTouch_rolling_back(a, ok) ==
    /\ pc[a] = "touch"
    /\ hist' = HistReturn(session_id[a], ok)
    /\ IF ok
       THEN /\ sessions' = TouchSession(session_id[a])
            /\ Ok(a, frame[a], frame[a].trace[1])
            /\ UNCHANGED traces
       ELSE /\ Err(a, frame[a], "Database")
            /\ traces' = SelectSeq(traces,
                             LAMBDA row : row.id # frame[a].trace[1].id)
            /\ UNCHANGED sessions
    /\ UNCHANGED <<clock, uuid, session_id, agent, budget>>

\* log_turn after log_trace: the session's timestamp, then Ok(trace)
LogTurnTouch(a, ok) ==
    /\ pc[a] = "touch"
    /\ hist' = HistReturn(session_id[a], ok)
    /\ IF ok
       THEN /\ sessions' = TouchSession(session_id[a])
            /\ Ok(a, frame[a], frame[a].trace[1])
       ELSE /\ Err(a, frame[a], "Database")
            /\ UNCHANGED sessions
    /\ UNCHANGED <<traces, clock, uuid, session_id, agent, budget>>

(***************************************************************************)
(* AgentHistory::recent, recent_messages and search                        *)
(***************************************************************************)
\* a recent that also stamps the session as used
Recent_touching(a, n, ok) ==
    /\ Idle(a)
    /\ budget > 0
    /\ budget' = budget - 1
    /\ LET f == [IdleFrame EXCEPT !.call = "recent"]
       IN  IF ok
           THEN \E r \in recent(session_id[a], n) : Ok(a, f, r)
           ELSE Err(a, f, "Database")
    /\ sessions' = TouchSession(session_id[a])
    /\ UNCHANGED <<traces, clock, uuid, session_id, agent, hist>>

\* AgentHistory::recent(n)
Recent(a, n, ok) ==
    /\ Idle(a)
    /\ budget > 0
    /\ budget' = budget - 1
    /\ LET f == [IdleFrame EXCEPT !.call = "recent"]
       IN  IF ok
           THEN \E r \in recent(session_id[a], n) : Ok(a, f, r)
           ELSE Err(a, f, "Database")
    /\ UNCHANGED <<sessions, traces, clock, uuid, session_id, agent, hist>>

RecentMessages(a, n, ok) ==
    /\ Idle(a)
    /\ budget > 0
    /\ budget' = budget - 1
    /\ LET f == [IdleFrame EXCEPT !.call = "recent_messages"]
       IN  IF ok
           THEN \E r \in recent_messages(session_id[a], n) : Ok(a, f, r)
           ELSE Err(a, f, "Database")
    /\ UNCHANGED <<sessions, traces, clock, uuid, session_id, agent, hist>>

Search(a, query, limit, success_only, ok) ==
    /\ Idle(a)
    /\ budget > 0
    /\ budget' = budget - 1
    /\ LET f == [IdleFrame EXCEPT !.call = "search"]
       IN  IF ok
           THEN \E r \in search(session_id[a], query, limit, success_only) :
                    Ok(a, f, r)
           ELSE Err(a, f, "Database")
    /\ UNCHANGED <<sessions, traces, clock, uuid, session_id, agent, hist>>

(***************************************************************************)
(* AgentHistory::summarize_session                                         *)
(***************************************************************************)
\* the SELECT of summarize_session without its WHERE session_id = ?
SessionSelect_unscoped(sid) ==
    LET S == 1..Len(traces)
        before == {p \in S \X S :
                     TextLess(traces[p[1]].created_at, traces[p[2]].created_at)}
    IN  {RowsAt(o) : o \in Orderings(S, before)}

\* SELECT .. FROM traces WHERE session_id = ? ORDER BY created_at ASC
SessionSelect(sid) ==
    LET S == {i \in 1..Len(traces) : traces[i].session_id = sid}
        before == {p \in S \X S :
                     TextLess(traces[p[1]].created_at, traces[p[2]].created_at)}
    IN  {RowsAt(o) : o \in Orderings(S, before)}

\* the conversation text: one "{role}: {content}\n" per trace
Transcript(ts) == [i \in 1..Len(ts) |-> <<ts[i].role, ts[i].content>>]

Transcripts(sid) == {Transcript(Traces(rows)) : rows \in SessionSelect(sid)}

\* an UPDATE that appends the text to the summary the session has
StoreSummary_appending(sid, summary) ==
    IF sid \in DOMAIN sessions
    THEN [sessions EXCEPT ![sid] =
            [updated_at |-> clock,
             summary |-> IF sessions[sid].summary = None THEN Some(summary)
                         ELSE Some(sessions[sid].summary[1] \o summary)]]
    ELSE sessions

\* UPDATE sessions SET summary = ?, updated_at = datetime('now') WHERE id = ?
StoreSummary(sid, summary) ==
    IF sid \in DOMAIN sessions
    THEN [sessions EXCEPT ![sid] = [updated_at |-> clock,
                                    summary |-> Some(summary)]]
    ELSE sessions

\* summarize_session returns to a chat that propagates its error
SummarizeReturn_propagating(a, f, ok, err, val) ==
    IF f.call = "chat"
    THEN LET g == [f EXCEPT !.summarized = IF ok THEN "ok" ELSE err]
         IN  IF ok THEN Ok(a, g, f.response) ELSE Err(a, g, err)
    ELSE Return(a, f, ok, err, val)

\* summarize_session returns; chat discards its result (`let _ =`) and
\* returns Ok(response)
SummarizeReturn(a, f, ok, err, val) ==
    IF f.call = "chat"
    THEN Ok(a, [f EXCEPT !.summarized = IF ok THEN "ok" ELSE err], f.response)
    ELSE Return(a, f, ok, err, val)

\* summarize_session up to its first await: the SELECT of the session
SummarizeSelect(a, f, ok) ==
    IF ok
    THEN /\ \E t \in Transcripts(session_id[a]) :
              frame' = [frame EXCEPT ![a] = [f EXCEPT !.transcript = t]]
         /\ pc' = [pc EXCEPT ![a] = "sum_generate"]
         /\ ret' = NoRet
    ELSE SummarizeReturn(a, f, FALSE, "Database", << >>)

\* summarize_session(summarizer), called on the store directly
SummarizeSession(a, ok) ==
    /\ Idle(a)
    /\ budget > 0
    /\ budget' = budget - 1
    /\ SummarizeSelect(a, [IdleFrame EXCEPT !.call = "summarize_session"], ok)
    /\ UNCHANGED <<sessions, traces, clock, uuid, session_id, agent, hist>>

\* a summarization that stores the error text when the generation fails
SummarizeGenerate_storing_failure(a, out) ==
    /\ pc[a] = "sum_generate"
    /\ IF out # None
       THEN /\ frame' = [frame EXCEPT ![a].summary = out[1]]
            /\ pc' = [pc EXCEPT ![a] = "sum_update"]
            /\ ret' = NoRet
            /\ UNCHANGED <<agent, sessions>>
       ELSE /\ SummarizeReturn(a, frame[a], FALSE, "Rig", << >>)
            /\ sessions' = StoreSummary(session_id[a], <<"error">>)
            /\ UNCHANGED agent
    /\ UNCHANGED <<traces, clock, uuid, session_id, budget, hist>>

\* summarizer.chat(&summary_prompt, vec![]): out is Some(text) or None (Err)
SummarizeGenerate(a, out) ==
    /\ pc[a] = "sum_generate"
    /\ IF out # None
       THEN /\ frame' = [frame EXCEPT ![a].summary = out[1]]
            /\ pc' = [pc EXCEPT ![a] = "sum_update"]
            /\ ret' = NoRet
            /\ UNCHANGED agent
       ELSE /\ SummarizeReturn(a, frame[a], FALSE, "Rig", << >>)
            /\ UNCHANGED agent
    /\ UNCHANGED <<sessions, traces, clock, uuid, session_id, budget, hist>>

SummarizeUpdate(a, ok) ==
    /\ pc[a] = "sum_update"
    /\ IF ok
       THEN /\ sessions' = StoreSummary(session_id[a], frame[a].summary)
            /\ SummarizeReturn(a, frame[a], TRUE, "none", frame[a].summary)
       ELSE /\ SummarizeReturn(a, frame[a], FALSE, "Database", << >>)
            /\ UNCHANGED sessions
    /\ UNCHANGED <<traces, clock, uuid, session_id, agent, budget, hist>>

(***************************************************************************)
(* AgentHistory::import_jsonl                                              *)
(***************************************************************************)
\* chrono's serde text of a DateTime<Utc>: RFC 3339 with 'Z' for the offset
SerdeTime(t) == SubSeq(to_rfc3339(t), 1, Len(to_rfc3339(t)) - 1) \o <<90>>

\* serde_json::to_string(&trace): embedding is skipped when it is None
Serialize(trace) ==
    LET fields == {"id", "session_id", "role", "content", "metadata",
                   "created_at"}
                  \cup (IF trace.embedding = None THEN {} ELSE {"embedding"})
    IN  [k \in fields |->
           CASE k = "metadata" -> MetaToJson(trace.metadata)
             [] k = "created_at" -> SerdeTime(trace.created_at)
             [] k = "embedding" -> trace.embedding[1]
             [] OTHER -> trace[k]]

\* a parse without #[serde(default)]: metadata is a required field
Deserialize_strict(line) ==
    IF line.kind # "json"
       \/ ~({"id", "session_id", "role", "content", "created_at", "metadata"}
              \subseteq DOMAIN line.obj)
    THEN None
    ELSE Some([id |-> line.obj["id"],
               session_id |-> line.obj["session_id"],
               role |-> line.obj["role"],
               content |-> line.obj["content"],
               metadata |-> MetaFromJson(line.obj["metadata"]),
               created_at |-> parse_from_rfc3339(line.obj["created_at"]),
               embedding |-> IF "embedding" \in DOMAIN line.obj
                             THEN Some(line.obj["embedding"])
                             ELSE None])

\* serde_json::from_str::<Trace>(line): None when the line is no JSON object
\* or lacks a required field; metadata defaults to empty, embedding to None
Deserialize(line) ==
    IF line.kind # "json"
       \/ ~({"id", "session_id", "role", "content", "created_at"}
              \subseteq DOMAIN line.obj)
    THEN None
    ELSE Some([id |-> line.obj["id"],
               session_id |-> line.obj["session_id"],
               role |-> line.obj["role"],
               content |-> line.obj["content"],
               metadata |-> IF "metadata" \in DOMAIN line.obj
                            THEN MetaFromJson(line.obj["metadata"])
                            ELSE EmptyMeta,
               created_at |-> parse_from_rfc3339(line.obj["created_at"]),
               embedding |-> IF "embedding" \in DOMAIN line.obj
                             THEN Some(line.obj["embedding"])
                             ELSE None])

\* line.trim().is_empty()
IsBlank(line) == line.kind = "blank"

Without(obj, k) == [x \in DOMAIN obj \ {k} |-> obj[x]]

\* the traces the imported files were written from
FileId(n) == <<"file", n>>
ImportTraces ==
    {[id |-> FileId(1), session_id |-> Sid(1), role |-> "user",
      content |-> <<"x">>, metadata |-> EmptyMeta, created_at |-> 0,
      embedding |-> None],
     [id |-> FileId(2), session_id |-> Sid(2), role |-> "assistant",
      content |-> <<"x", "x">>, metadata |-> MetaOf("success", JsonFalse),
      created_at |-> 1, embedding |-> Some("e")]}

JsonLine(obj) == [kind |-> "json", obj |-> obj]
BlankLine == [kind |-> "blank", obj |-> EmptyMeta]
GarbageLine == [kind |-> "garbage", obj |-> EmptyMeta]

\* the lines a file may hold
Lines ==
    {BlankLine, GarbageLine}
    \cup {JsonLine(Serialize(t)) : t \in ImportTraces}
    \cup {JsonLine(Without(Serialize(t), "metadata")) : t \in ImportTraces}
    \cup {JsonLine(Without(Serialize(t), "id")) : t \in ImportTraces}

\* the traces table rejects a second row with an id it holds
IdTaken(id) == \E i \in 1..Len(traces) : traces[i].id = id

\* import_jsonl(path) up to the loop: tokio::fs::read_to_string
ImportJsonl(a, ok) ==
    /\ Idle(a)
    /\ budget > 0
    /\ budget' = budget - 1
    /\ LET f == [IdleFrame EXCEPT !.call = "import_jsonl"]
       IN  IF ok
           THEN /\ frame' = [frame EXCEPT ![a] = f]
                /\ pc' = [pc EXCEPT ![a] = "import"]
                /\ ret' = NoRet
           ELSE Err(a, f, "Io")
    /\ UNCHANGED <<sessions, traces, clock, uuid, session_id, agent, hist>>

\* the loop inside a transaction that is rolled back when a line fails
ImportLine_atomic(a, line, ok) ==
    LET f == [frame[a] EXCEPT !.lines = Append(@, line)]
        parsed == Deserialize(line)
        mine(row) == \E i \in 1..Len(f.logged) :
                        row_to_trace(row) = f.logged[i]
        others(row) == ~mine(row)
    IN  /\ pc[a] = "import"
        /\ Len(frame[a].lines) < MaxLines
        /\ IF IsBlank(line)
           THEN /\ frame' = [frame EXCEPT ![a] = f]
                /\ ret' = NoRet
                /\ UNCHANGED <<pc, traces, hist>>
           ELSE IF parsed # None /\ ok /\ ~IdTaken(parsed[1].id)
           THEN /\ traces' = InsertTrace(parsed[1])
                /\ hist' = HistOther(parsed[1].session_id)
                /\ frame' = [frame EXCEPT ![a] =
                                [f EXCEPT !.count = @ + 1,
                                          !.logged = Append(@, parsed[1])]]
                /\ ret' = NoRet
                /\ UNCHANGED pc
           ELSE /\ Err(a, f, IF parsed = None THEN "Json" ELSE "Database")
                /\ traces' = SelectSeq(traces, others)
                /\ UNCHANGED hist
        /\ UNCHANGED <<sessions, clock, uuid, session_id, agent, budget>>

\* one turn of the loop over content.lines(): the next line of the file
ImportLine(a, line, ok) ==
    LET f == [frame[a] EXCEPT !.lines = Append(@, line)]
        parsed == Deserialize(line)
    IN  /\ pc[a] = "import"
        /\ Len(frame[a].lines) < MaxLines
        /\ IF IsBlank(line)
           THEN /\ frame' = [frame EXCEPT ![a] = f]
                /\ ret' = NoRet
                /\ UNCHANGED <<pc, traces, hist>>
           ELSE IF parsed = None
           THEN /\ Err(a, f, "Json")
                /\ UNCHANGED <<traces, hist>>
           ELSE IF ok /\ ~IdTaken(parsed[1].id)
           THEN /\ traces' = InsertTrace(parsed[1])
                /\ hist' = HistOther(parsed[1].session_id)
                /\ frame' = [frame EXCEPT ![a] =
                                [f EXCEPT !.count = @ + 1,
                                          !.logged = Append(@, parsed[1])]]
                /\ ret' = NoRet
                /\ UNCHANGED pc
           ELSE /\ Err(a, f, "Database")
                /\ UNCHANGED <<traces, hist>>
        /\ UNCHANGED <<sessions, clock, uuid, session_id, agent, budget>>

\* the loop ends with the file: Ok(count)
ImportEnd(a) ==
    /\ pc[a] = "import"
    /\ Ok(a, frame[a], frame[a].count)
    /\ UNCHANGED <<sessions, traces, clock, uuid, session_id, agent, budget,
                   hist>>

(***************************************************************************)
(* SmartAgent (smart_agent.rs)                                             *)
(***************************************************************************)
\* SmartAgent::new(agent, history)
NewSmartAgent(a) ==
    /\ Idle(a)
    /\ ~agent[a].built
    /\ agent' = [agent EXCEPT ![a] =
                    [built |-> TRUE, recall_top_k |-> DefaultRecallTopK,
                     summarize_every |-> DefaultSummarizeEvery,
                     turn_count |-> 0, auto |-> << >>]]
    /\ ret' = NoRet
    /\ UNCHANGED <<sessions, traces, clock, uuid, session_id, pc, frame,
                   budget, hist>>

\* the fluent setters, applied while the agent is being configured
Configuring(a) == Idle(a) /\ agent[a].built /\ budget = MaxCalls

with_recall_top_k(a, k) ==
    /\ Configuring(a)
    /\ agent' = [agent EXCEPT ![a].recall_top_k = k]
    /\ ret' = NoRet
    /\ UNCHANGED <<sessions, traces, clock, uuid, session_id, pc, frame,
                   budget, hist>>

with_summarize_every(a, n) ==
    /\ Configuring(a)
    /\ agent' = [agent EXCEPT ![a].summarize_every = n]
    /\ ret' = NoRet
    /\ UNCHANGED <<sessions, traces, clock, uuid, session_id, pc, frame,
                   budget, hist>>

\* a divisibility test that takes every number for a multiple of 0
is_multiple_of_zero_divides_all(x, n) == IF n = 0 THEN TRUE ELSE x % n = 0

\* usize::is_multiple_of: no number but 0 is a multiple of 0
is_multiple_of(x, n) == IF n = 0 THEN x = 0 ELSE x % n = 0

\* created_at.format("%Y-%m-%d %H:%M"): the minute of the instant
FormatMinute(t) == t \div 120

\* "Relevant past experiences:" and one numbered line per recalled trace
RecallContext(relevant) ==
    [i \in 1..Len(relevant) |->
       <<i, FormatMinute(relevant[i].created_at), relevant[i].role,
         relevant[i].content>>]

\* step 2 pushing the block whether or not anything was recalled
ContextMessages_always_block(relevant) ==
    <<Message("system", RecallContext(relevant))>>

\* step 2 of chat: the context messages
ContextMessages(relevant) ==
    IF relevant # << >>
    THEN <<Message("system", RecallContext(relevant))>>
    ELSE << >>

\* chat logging the user turn first and running the recall search after it
Chat_logging_first(a, user_input, ok) ==
    LET f == [IdleFrame EXCEPT !.call = "chat", !.input = user_input]
        trace == NewTurn(a, Message("user", user_input),
                         MetaOf("recalled_traces", JsonNum(0)))
    IN  /\ Idle(a)
        /\ agent[a].built
        /\ budget > 0
        /\ budget' = budget - 1
        /\ UNCHANGED <<sessions, session_id, agent>>
        /\ IF ok
           THEN /\ traces' = InsertTrace(trace)
                /\ uuid' = uuid + 1
                /\ clock' = clock + 1
                /\ hist' = HistInsert(session_id[a], trace)
                /\ \E r \in search(session_id[a], user_input,
                                    agent[a].recall_top_k, FALSE)' :
                     frame' = [frame EXCEPT ![a] =
                                 [f EXCEPT !.relevant = r,
                                           !.context = ContextMessages(r),
                                           !.stage = "user",
                                           !.trace = Some(trace),
                                           !.logged = <<trace>>]]
                /\ pc' = [pc EXCEPT ![a] = "touch_user"]
                /\ ret' = NoRet
           ELSE /\ Err(a, f, "Database")
                /\ UNCHANGED <<traces, uuid, clock, hist>>

\* chat(user_input) up to its first await: the recall search
Chat(a, user_input, ok) ==
    /\ Idle(a)
    /\ agent[a].built
    /\ budget > 0
    /\ budget' = budget - 1
    /\ LET f == [IdleFrame EXCEPT !.call = "chat", !.input = user_input]
       IN  IF ok
           THEN /\ \E r \in search(session_id[a], user_input,
                                    agent[a].recall_top_k, FALSE) :
                     frame' = [frame EXCEPT ![a] =
                                 [f EXCEPT !.relevant = r,
                                           !.context = ContextMessages(r),
                                           !.stage = "user"]]
                /\ pc' = [pc EXCEPT ![a] = "log_user"]
                /\ ret' = NoRet
           ELSE Err(a, f, "Database")
    /\ UNCHANGED <<sessions, traces, clock, uuid, session_id, agent, hist>>

\* step 3 left out: the generation follows the search
ChatLogUser_skipped(a, ok) ==
    /\ pc[a] = "log_user"
    /\ pc' = [pc EXCEPT ![a] = "generate"]
    /\ ret' = NoRet
    /\ UNCHANGED <<sessions, traces, clock, uuid, session_id, agent, frame,
                   budget, hist>>

\* step 3: log_turn(&user_message, user_metadata), its INSERT
ChatLogUser(a, ok) ==
    /\ pc[a] = "log_user"
    /\ LogInsert(a, frame[a], Message("user", frame[a].input),
                 MetaOf("recalled_traces", JsonNum(Len(frame[a].relevant))),
                 ok, "touch_user")
    /\ UNCHANGED <<sessions, session_id, agent, budget>>

\* step 3: the session timestamp of that log_turn
ChatTouchUser(a, ok) ==
    /\ pc[a] = "touch_user"
    /\ hist' = HistReturn(session_id[a], ok)
    /\ IF ok
       THEN /\ sessions' = TouchSession(session_id[a])
            /\ pc' = [pc EXCEPT ![a] = "generate"]
            /\ ret' = NoRet
            /\ UNCHANGED frame
       ELSE /\ Err(a, frame[a], "Database")
            /\ UNCHANGED sessions
    /\ UNCHANGED <<traces, clock, uuid, session_id, agent, budget>>

\* step 4: self.agent.chat(user_input, context_messages): Some(reply) or None
ChatGenerate(a, out) ==
    /\ pc[a] = "generate"
    /\ IF out # None
       THEN /\ frame' = [frame EXCEPT ![a].response = out[1],
                                      ![a].stage = "assistant"]
            /\ pc' = [pc EXCEPT ![a] = "log_assistant"]
            /\ ret' = NoRet
       ELSE Err(a, frame[a], "Rig")
    /\ UNCHANGED <<sessions, traces, clock, uuid, session_id, agent, budget,
                   hist>>

\* the metadata of the assistant turn with no token-usage entry
AssistantMetadata_tokens_absent(duration_ms) ==
    [k \in {"duration_ms", "success"} |->
       IF k = "duration_ms" THEN JsonNum(duration_ms) ELSE JsonTrue]

\* the metadata of the assistant turn
AssistantMetadata(duration_ms) ==
    [k \in {"duration_ms", "success", "tokens_used"} |->
       CASE k = "duration_ms" -> JsonNum(duration_ms)
         [] k = "success" -> JsonTrue
         [] OTHER -> JsonNull]

\* the latency the clock measures, in milliseconds
Durations == {3}

\* step 5: log_turn(&assistant_message, metadata), its INSERT
ChatLogAssistant(a, duration_ms, ok) ==
    /\ pc[a] = "log_assistant"
    /\ LogInsert(a, frame[a], Message("assistant", frame[a].response),
                 AssistantMetadata(duration_ms), ok, "touch_assistant")
    /\ UNCHANGED <<sessions, session_id, agent, budget>>

\* step 6 testing the count before its increment
SummaryDue_before_increment(turn_count, summarize_every) ==
    is_multiple_of(turn_count - 1, summarize_every)

\* whether step 6 summarizes at this count
SummaryDue(turn_count, summarize_every) ==
    is_multiple_of(turn_count, summarize_every)

\* step 5's session timestamp, then step 6: the counter, and Ok(response)
\* unless a summarization is due
ChatTouchAssistant(a, ok) ==
    /\ pc[a] = "touch_assistant"
    /\ hist' = HistReturn(session_id[a], ok)
    /\ IF ok
       THEN /\ sessions' = TouchSession(session_id[a])
            /\ IF SummaryDue(agent[a].turn_count + 1, agent[a].summarize_every)
               THEN /\ agent' = [agent EXCEPT
                                   ![a].turn_count = @ + 1,
                                   ![a].auto = Append(@, agent[a].turn_count + 1)]
                    /\ pc' = [pc EXCEPT ![a] = "summarize"]
                    /\ ret' = NoRet
                    /\ UNCHANGED frame
               ELSE /\ agent' = [agent EXCEPT ![a].turn_count = @ + 1]
                    /\ Ok(a, frame[a], frame[a].response)
       ELSE /\ Err(a, frame[a], "Database")
            /\ UNCHANGED <<sessions, agent>>
    /\ UNCHANGED <<traces, clock, uuid, session_id, budget>>

\* step 6: self.history.summarize_session(&self.agent), its SELECT
ChatSummarize(a, ok) ==
    /\ pc[a] = "summarize"
    /\ SummarizeSelect(a, [frame[a] EXCEPT !.summarized = "started"], ok)
    /\ UNCHANGED <<sessions, traces, clock, uuid, session_id, agent, budget,
                   hist>>

\* SmartAgent::summarize: summarize_session on the wrapped store
Summarize(a, ok) ==
    /\ Idle(a)
    /\ agent[a].built
    /\ budget > 0
    /\ budget' = budget - 1
    /\ SummarizeSelect(a, [IdleFrame EXCEPT !.call = "summarize"], ok)
    /\ UNCHANGED <<sessions, traces, clock, uuid, session_id, agent, hist>>

(***************************************************************************)
(* Trace used on its own (trace.rs): a caller builds a trace, attaches     *)
(* metadata, asks is_success, writes it as a JSON record and parses        *)
(* records.  frame[a].trace is the trace the caller holds, frame[a].lines  *)
(* the record last written from it.                                        *)
(***************************************************************************)
\* the values a caller puts under a metadata key
MetaValues ==
    {JsonTrue, JsonFalse, JsonNull, JsonNum(0), JsonStr(<<"false">>),
     JsonList(<< >>), JsonObj(<< >>)}

MetaKeys == {"success", "tokens_used"}

Holds(a) == pc[a] = "idle" /\ frame[a].trace # None

\* a method of the held trace returns val
Answer(a, call, val) ==
    ret' = [caller |-> a, call |-> call, ok |-> TRUE, err |-> "none",
            val |-> val, frame |-> [frame[a] EXCEPT !.call = call]]

\* Trace::new(session_id, role, content)
NewTrace(a, sid, role, content) ==
    /\ pc[a] = "idle"
    /\ uuid < MaxCalls
    /\ frame' = [frame EXCEPT ![a] =
                    [IdleFrame EXCEPT
                       !.trace = Some(TraceNew(Uuid(uuid), clock, sid, role,
                                               content))]]
    /\ uuid' = uuid + 1
    /\ clock' = clock + 1
    /\ ret' = NoRet
    /\ UNCHANGED <<sessions, traces, session_id, agent, pc, budget, hist>>

\* trace.with_metadata(metadata)
WithMetadata(a, metadata) ==
    /\ Holds(a)
    /\ frame' = [frame EXCEPT ![a] =
                    [IdleFrame EXCEPT
                       !.trace = Some(with_metadata(frame[a].trace[1],
                                                    metadata))]]
    /\ ret' = NoRet
    /\ UNCHANGED <<sessions, traces, clock, uuid, session_id, agent, pc,
                   budget, hist>>

\* trace.add_metadata(key, value)
AddMetadata(a, key, value) ==
    /\ Holds(a)
    /\ frame' = [frame EXCEPT ![a] =
                    [IdleFrame EXCEPT
                       !.trace = Some(add_metadata(frame[a].trace[1], key,
                                                   value))]]
    /\ ret' = NoRet
    /\ UNCHANGED <<sessions, traces, clock, uuid, session_id, agent, pc,
                   budget, hist>>

\* trace.is_success()
IsSuccess(a) ==
    /\ Holds(a)
    /\ Answer(a, "is_success", is_success(frame[a].trace[1]))
    /\ UNCHANGED <<sessions, traces, clock, uuid, session_id, agent, pc, frame,
                   budget, hist>>

\* the JSON texts of a HashMap: its members in the order of its iteration
MetaJsonTexts(m) ==
    {[i \in 1..Len(o) |-> <<o[i], m[o[i]]>>] : o \in Orderings(DOMAIN m, {})}

\* serde_json::to_string(&trace)
ToJson(a) ==
    /\ Holds(a)
    /\ \E text \in MetaJsonTexts(frame[a].trace[1].metadata) :
          LET obj == [k \in DOMAIN Serialize(frame[a].trace[1]) |->
                        IF k = "metadata" THEN text
                        ELSE Serialize(frame[a].trace[1])[k]]
          IN  /\ frame' = [frame EXCEPT ![a].lines = <<JsonLine(obj)>>]
              /\ Answer(a, "to_string", JsonLine(obj))
    /\ UNCHANGED <<sessions, traces, clock, uuid, session_id, agent, pc,
                   budget, hist>>

\* serde_json::from_str::<Trace>(&json) of the record written last
FromJson(a) ==
    /\ Holds(a)
    /\ frame[a].lines # << >>
    /\ Answer(a, "from_str", Deserialize(frame[a].lines[1]))
    /\ UNCHANGED <<sessions, traces, clock, uuid, session_id, agent, pc, frame,
                   budget, hist>>

\* serde_json::from_str::<Trace>(line) of a record from elsewhere; the caller
\* holds the trace it yields
FromJsonRecord(a, line) ==
    /\ pc[a] = "idle"
    /\ ret' = [caller |-> a, call |-> "from_str_record",
               ok |-> Deserialize(line) # None,
               err |-> IF Deserialize(line) # None THEN "none" ELSE "Json",
               val |-> Deserialize(line),
               frame |-> [IdleFrame EXCEPT !.call = "from_str_record",
                                           !.lines = <<line>>]]
    /\ frame' = [frame EXCEPT ![a] =
                    [IdleFrame EXCEPT !.trace = Deserialize(line)]]
    /\ UNCHANGED <<sessions, traces, clock, uuid, session_id, agent, pc,
                   budget, hist>>

(***************************************************************************)
(* Specifications.                                                         *)
(***************************************************************************)
Supplied == {None} \cup {Some(x) : x \in SuppliedSessionIds}
Outputs(texts) == {None} \cup {Some(x) : x \in texts}

\* opening a store, writing the turns In and reading back with the queries Q
StoreNext(C, In, Q) ==
    \/ \E a \in C, s \in Supplied, ok \in BOOLEAN : Open(a, s, ok)
    \/ \E a \in C, in \in In, ok \in BOOLEAN : LogTurn(a, in[1], in[2], ok)
    \/ \E a \in C, ok \in BOOLEAN : LogTurnTouch(a, ok)
    \/ \E a \in C, n \in 0..MaxLimit, ok \in BOOLEAN : Recent(a, n, ok)
    \/ \E a \in C, n \in 0..MaxLimit, ok \in BOOLEAN :
          RecentMessages(a, n, ok)
    \/ \E a \in C, q \in Q, n \in 0..MaxLimit, so \in BOOLEAN,
          ok \in BOOLEAN : Search(a, q, n, so, ok)

\* summarizing a session, the summarizer answering with a text of S or failing
SummaryNext(C, S) ==
    \/ \E a \in C, ok \in BOOLEAN : SummarizeSession(a, ok)
    \/ \E a \in C, out \in Outputs(S) : SummarizeGenerate(a, out)
    \/ \E a \in C, ok \in BOOLEAN : SummarizeUpdate(a, ok)

\* importing a file of lines of L
ImportNext(C, L) ==
    \/ \E a \in C, ok \in BOOLEAN : ImportJsonl(a, ok)
    \/ \E a \in C, line \in L, ok \in BOOLEAN : ImportLine(a, line, ok)
    \/ \E a \in C : ImportEnd(a)

\* the orchestrator, configured with recall_top_k in K and summarize_every in
\* N, chatting with the inputs U, the agent answering with a reply of R
AgentNext(C, K, N, U, R) ==
    \/ \E a \in C : NewSmartAgent(a)
    \/ \E a \in C, k \in K : with_recall_top_k(a, k)
    \/ \E a \in C, n \in N : with_summarize_every(a, n)
    \/ \E a \in C, in \in U, ok \in BOOLEAN : Chat(a, in, ok)
    \/ \E a \in C, ok \in BOOLEAN : ChatLogUser(a, ok)
    \/ \E a \in C, ok \in BOOLEAN : ChatTouchUser(a, ok)
    \/ \E a \in C, out \in Outputs(R) : ChatGenerate(a, out)
    \/ \E a \in C, d \in Durations, ok \in BOOLEAN :
          ChatLogAssistant(a, d, ok)
    \/ \E a \in C, ok \in BOOLEAN : ChatTouchAssistant(a, ok)
    \/ \E a \in C, ok \in BOOLEAN : ChatSummarize(a, ok)
    \/ \E a \in C, ok \in BOOLEAN : Summarize(a, ok)

\* every operation, one caller
Next ==
    \/ StoreNext({"a1"}, {<<Message("user", <<"x">>), EmptyMeta>>},
                 {EmptyText, <<"x">>})
    \/ SummaryNext({"a1"}, {<<"sum1">>})
    \/ ImportNext({"a1"}, {BlankLine, GarbageLine}
                          \cup {JsonLine(Serialize(t)) : t \in ImportTraces})
    \/ AgentNext({"a1"}, {1}, {1}, {<<"x">>}, {<<"y">>})
Spec == Init /\ [][Next]_vars

\* two stores over one database
NextStore ==
    StoreNext(Callers,
              {<<Message("user", <<"x">>), EmptyMeta>>,
               <<Message("assistant", <<"x", "x">>),
                 MetaOf("success", JsonFalse)>>},
              {EmptyText, <<"x">>})
SpecStore == Init /\ [][NextStore]_vars

\* one store importing files and summarizing
\* one store handle, for the search contract
NextSearch == StoreNext({"a1"}, LogInputs, Texts)
SpecSearch == Init /\ [][NextSearch]_vars

\* a caller and a trace, no store
NextTrace ==
    \/ \E role \in Roles : NewTrace("a1", Sid(1), role, <<"x">>)
    \/ \E m \in Metas : WithMetadata("a1", m)
    \/ \E k \in MetaKeys, v \in MetaValues : AddMetadata("a1", k, v)
    \/ IsSuccess("a1")
    \/ ToJson("a1")
    \/ FromJson("a1")
    \/ \E line \in Lines : FromJsonRecord("a1", line)
SpecTrace == Init /\ [][NextTrace]_vars

\* two handles that open, log and summarize
NextOpen ==
    StoreNext(Callers, {<<Message("user", <<"x">>), EmptyMeta>>}, {<<"x">>})
    \/ SummaryNext(Callers, {<<"sum1">>})
SpecOpen == Init /\ [][NextOpen]_vars

NextImport ==
    \/ StoreNext({"a1"}, LogInputs, Texts)
    \/ ImportNext({"a1"}, Lines)
    \/ SummaryNext({"a1"}, Summaries)
SpecImport == Init /\ [][NextImport]_vars

\* two orchestrators over one database, as SmartAgent::new configures them:
\* with summarize_every = 20 no summarization is due within MaxCalls turns
NextPair ==
    \/ \E a \in Callers, s \in Supplied, ok \in BOOLEAN : Open(a, s, ok)
    \/ \E a \in Callers : NewSmartAgent(a)
    \/ \E a \in Callers, ok \in BOOLEAN : Chat(a, <<"x">>, ok)
    \/ \E a \in Callers, ok \in BOOLEAN : ChatLogUser(a, ok)
    \/ \E a \in Callers, ok \in BOOLEAN : ChatTouchUser(a, ok)
    \/ \E a \in Callers, out \in Outputs({<<"y">>}) : ChatGenerate(a, out)
    \/ \E a \in Callers, d \in Durations, ok \in BOOLEAN :
          ChatLogAssistant(a, d, ok)
    \/ \E a \in Callers, ok \in BOOLEAN : ChatTouchAssistant(a, ok)
SpecPair == Init /\ [][NextPair]_vars

\* one orchestrator
NextChat ==
    \/ \E s \in Supplied, ok \in BOOLEAN : Open("a1", s, ok)
    \/ AgentNext({"a1"}, {0, 1}, 0..MaxEvery, ChatInputs, {<<"x">>})
    \/ SummaryNext({"a1"}, Summaries)
SpecChat == Init /\ [][NextChat]_vars

(***************************************************************************)
(* Properties.                                                             *)
(***************************************************************************)
Range(seq) == {seq[i] : i \in 1..Len(seq)}

LastK(seq, k) == SubSeq(seq, Len(seq) - k + 1, Len(seq))

\* every session id the database or a store mentions
KnownSessions ==
    DOMAIN sessions \cup DOMAIN hist
    \cup {traces[i].session_id : i \in 1..Len(traces)}
    \cup {session_id[a] : a \in Callers}

\* the traces log_turn has written to session sid, when nothing else wrote
\* to it and every one of those calls has returned Ok
OnlyLogTurns(sid) == HistOf(sid).clean /\ HistOf(sid).pending = 0

\* metadata["success"] is present and is the boolean false
ExplicitFailure(t) ==
    "success" \in DOMAIN t.metadata /\ t.metadata["success"] = JsonFalse

\* the handles that hold a store
Stores == {a \in Callers : Opened(a)}

\* the texts a caller may search for, but the empty one
Queries == Texts \ {EmptyText}

\* the stored traces that match q, over all sessions
Matches(q) ==
    {row_to_trace(traces[i]) :
       i \in {j \in 1..Len(traces) : FtsMatch(traces[j].content, q)}}

\* C1: after N successful log_turn calls on session S and no other write to
\* S, recent(k) is, for every k <= N, the last k of those traces, oldest
\* first; recent(0) is empty for every session.
C1_RecentLastK ==
    \A sid \in KnownSessions :
        /\ recent(sid, 0) = {<< >>}
        /\ OnlyLogTurns(sid) =>
             \A k \in 0..Len(HistOf(sid).written) :
                 recent(sid, k) = {LastK(HistOf(sid).written, k)}

C1_Witness ==
    \E sid \in KnownSessions :
        /\ OnlyLogTurns(sid)
        /\ Len(HistOf(sid).written) = 2
        /\ recent(sid, 1) = {<<HistOf(sid).written[2]>>}
        /\ recent(sid, 2) = {HistOf(sid).written}

\* C2: of two stores bound to distinct sessions, recent of one never returns
\* a trace written through the other, while a search with a non-empty query
\* from either store returns the matching traces of every session.
C2_RecentScopedSearchNot ==
    \A a \in Callers, b \in Callers :
        (Opened(a) /\ Opened(b) /\ session_id[a] # session_id[b]) =>
            /\ \A n \in 0..Len(traces) : \A r \in recent(session_id[a], n) :
                  \A i \in 1..Len(r) :
                      /\ r[i].session_id = session_id[a]
                      /\ r[i] \notin Range(HistOf(session_id[b]).written)
            /\ \A q \in Queries :
                  \A r \in search(session_id[a], q, Len(traces), FALSE) :
                      Range(r) = Matches(q)

C2_Witness ==
    \E a \in Callers, b \in Callers :
        /\ Opened(a) /\ Opened(b) /\ session_id[a] # session_id[b]
        /\ HistOf(session_id[a]).written # << >>
        /\ HistOf(session_id[b]).written # << >>
        /\ \E r \in search(session_id[a], <<"x">>, 2, FALSE) :
              /\ \E i \in 1..Len(r) : r[i].session_id = session_id[a]
              /\ \E i \in 1..Len(r) : r[i].session_id = session_id[b]

\* C3: for a non-empty query, search takes the first `limit` matches in
\* ranked order and filters them afterwards: the result has at most `limit`
\* elements and may miss successful matches ranked behind the limit.
C3_FilterAfterLimit ==
    \A a \in Stores : \A q \in Queries : \A limit \in 0..Len(traces) :
        \A so \in BOOLEAN :
            \A r \in search(session_id[a], q, limit, so) :
                /\ Len(r) <= limit
                /\ \E full \in search(session_id[a], q, Len(traces), FALSE) :
                      LET kept(t) == (~so) \/ ~ExplicitFailure(t)
                      IN  r = SelectSeq(Take(full, limit), kept)

C3_Witness ==
    \E a \in Stores : \E q \in Queries :
        /\ search(session_id[a], q, 1, TRUE) = {<< >>}
        /\ \E t \in Matches(q) : ~ExplicitFailure(t)

\* C4: for a non-empty query, search with success_only is search without it,
\* on the same rows, keeping in order exactly the traces that are a success.
C4_SuccessOnlySubsequence ==
    \A a \in Stores : \A q \in Queries : \A limit \in 0..Len(traces) :
        search(session_id[a], q, limit, TRUE) =
            {LET success(t) == ~ExplicitFailure(t) IN SelectSeq(r, success) :
               r \in search(session_id[a], q, limit, FALSE)}

C4_Witness ==
    \E a \in Stores : \E q \in Queries :
        \E r \in search(session_id[a], q, 2, FALSE) :
            \E s \in search(session_id[a], q, 2, TRUE) :
                Len(r) = 2 /\ Len(s) = 1

C6_AppendOnly ==
    [][\A i \in 1..Len(traces) :
          \E j \in 1..Len(traces') : traces'[j] = traces[i]]_vars

C6_Witness ==
    /\ Len(traces) >= 2
    /\ \E sid \in DOMAIN sessions :
          /\ sessions[sid].summary # None
          /\ \E i \in 1..Len(traces) : traces[i].session_id = sid

\* C7: every stored trace references a session that has a session row,
\* whether log_turn inserted it or import_jsonl did.
C7_SessionRowExists ==
    \A i \in 1..Len(traces) : traces[i].session_id \in DOMAIN sessions

\* C8: chat persists the user's turn before it invokes the generation; when
\* the generation fails chat returns the generation error, the user trace
\* of that input is stored in the active session and the call has stored
\* no assistant trace.
UserTurnStored(a, f) ==
    /\ Len(f.logged) = 1
    /\ f.logged[1].role = "user"
    /\ f.logged[1].content = f.input
    /\ f.logged[1].session_id = session_id[a]
    /\ \E i \in 1..Len(traces) : row_to_trace(traces[i]) = f.logged[1]

C8_LogBeforeGenerate ==
    /\ \A a \in Callers : pc[a] = "generate" => UserTurnStored(a, frame[a])
    /\ (ret.call = "chat" /\ ret.err = "Rig") =>
            /\ ~ret.ok
            /\ UserTurnStored(ret.caller, ret.frame)

C8_Witness ==
    /\ ret.call = "chat"
    /\ ~ret.ok
    /\ ret.err = "Rig"
    /\ Len(ret.frame.logged) = 1

\* C9: a failure of the summarization chat triggers never propagates: a
\* chat that got as far as summarizing returns Ok(reply), whatever the
\* summarization did.
C9_SummaryFailureSwallowed ==
    /\ (ret.call = "chat" /\ ret.frame.summarized # "no") =>
            /\ ret.ok
            /\ ret.val = ret.frame.response
            /\ Len(ret.frame.logged) = 2
    /\ (ret.call = "chat" /\ ~ret.ok) => ret.frame.summarized = "no"

C9_Witness ==
    /\ ret.call = "chat"
    /\ ret.ok
    /\ ret.frame.summarized \in {"Rig", "Database"}

\* C10: with summarize_every = n >= 1, chat summarizes exactly when the
\* count it has just incremented is a multiple of n: at count c it has done
\* so floor(c / n) times, at n, 2n, ..; a new agent has n = 20.
C10_Cadence ==
    /\ [](\A a \in Callers :
            (agent[a].built /\ agent[a].summarize_every >= 1) =>
                agent[a].auto =
                    [i \in 1..(agent[a].turn_count \div agent[a].summarize_every)
                       |-> i * agent[a].summarize_every])
    /\ [][\A a \in Callers :
            (~agent[a].built /\ agent'[a].built) =>
                agent'[a].summarize_every = 20]_vars

C10_Witness ==
    \E a \in Callers :
        /\ agent[a].summarize_every = 2
        /\ agent[a].turn_count = 2
        /\ agent[a].auto = <<2>>

\* C11: chat returns an error only when its generation call or one of its two
\* log writes fails: a chat that returns an error has got past its recall
\* search, and has not started summarizing.
C11_ChatErrorSources ==
    (ret.call = "chat" /\ ~ret.ok) =>
        /\ ret.frame.stage \in {"user", "assistant"}
        /\ ret.frame.summarized = "no"

\* the non-blank lines among those read
NonBlank(lines) ==
    LET text(line) == line.kind # "blank"
    IN  SelectSeq(lines, text)

Stored(t) == \E i \in 1..Len(traces) : row_to_trace(traces[i]) = t

Verbatim(row, obj) ==
    /\ row.id = obj["id"]
    /\ row.session_id = obj["session_id"]
    /\ row.role = obj["role"]
    /\ row.content = obj["content"]
    /\ MetaFromJson(row.metadata) =
          (IF "metadata" \in DOMAIN obj THEN MetaFromJson(obj["metadata"])
           ELSE EmptyMeta)
    /\ parse_from_rfc3339(row.created_at) =
          parse_from_rfc3339(obj["created_at"])
    /\ row.embedding =
          (IF "embedding" \in DOMAIN obj THEN Some(obj["embedding"])
           ELSE None)

SummarizeCalls == {"summarize_session", "summarize"}

\* C14: when the generation call of summarize_session fails the call returns
\* a generation error, and from its start to its return it leaves the
\* sessions (summary and updated_at) and the traces as they were.
C14_SummaryGenerationFailure ==
    [][\A a \in Callers :
         /\ (pc[a] = "idle" /\ pc'[a] = "sum_generate") =>
                sessions' = sessions /\ traces' = traces
         /\ (pc[a] = "summarize" /\ pc'[a] = "sum_generate") =>
                sessions' = sessions /\ traces' = traces
         /\ (pc[a] = "sum_generate" /\ pc'[a] = "idle") =>
                /\ sessions' = sessions
                /\ traces' = traces
                /\ frame[a].call \in SummarizeCalls =>
                      /\ ret'.caller = a
                      /\ ~ret'.ok
                      /\ ret'.err = "Rig"
                      /\ ret'.val = << >>]_vars

C14_Witness ==
    /\ ret.call \in SummarizeCalls
    /\ ~ret.ok
    /\ ret.err = "Rig"
    /\ ret.frame.transcript # << >>
    /\ sessions[session_id[ret.caller]].summary # None

\* the summaries of the sessions
SummaryOf == [sid \in DOMAIN sessions |-> sessions[sid].summary]

\* caller a ends a summarize_session with Ok in this step
SummarizesOk(a) ==
    /\ pc[a] = "sum_update"
    /\ pc'[a] = "idle"
    /\ ret'.ok
    /\ frame[a].call = "chat" => ret'.frame.summarized = "ok"

\* C15: a summarize_session that succeeds, called directly, through
\* summarize() or by chat, leaves as the summary of the active session
\* exactly the text it returns, whatever the summary was; no other step
\* changes a summary, so the summary is the text of the last success.
C15_SummaryOverwritten ==
    /\ [](ret.call \in SummarizeCalls /\ ret.ok =>
            sessions[session_id[ret.caller]].summary = Some(ret.val))
    /\ [][\A a \in Callers : SummarizesOk(a) =>
            /\ sessions'[session_id[a]].summary = Some(frame[a].summary)
            /\ frame[a].call \in SummarizeCalls => ret'.val = frame[a].summary
            /\ \A sid \in DOMAIN sessions \ {session_id[a]} :
                  sessions'[sid].summary = sessions[sid].summary]_vars
    /\ [][(\A a \in Callers : ~SummarizesOk(a)) =>
            \A sid \in DOMAIN sessions :
                sessions'[sid].summary = sessions[sid].summary]_vars

C15_Witness ==
    /\ ret.call \in SummarizeCalls
    /\ ret.ok
    /\ budget = 0
    /\ ret.val = <<"sum2">>
    /\ SummaryOf[session_id[ret.caller]] = Some(<<"sum2">>)

\* C16: is_success() is false exactly when metadata holds the key "success"
\* with the boolean false: it is true without the key, with true, and with
\* a value that is no boolean.
C16_IsSuccess ==
    /\ \A a \in Callers : frame[a].trace # None =>
          (is_success(frame[a].trace[1]) <=> ~ExplicitFailure(frame[a].trace[1]))
    /\ ret.call = "is_success" =>
          LET m == ret.frame.trace[1].metadata
          IN  /\ ret.val \in BOOLEAN
              /\ "success" \notin DOMAIN m => ret.val = TRUE
              /\ ("success" \in DOMAIN m /\ m["success"] = JsonTrue) =>
                    ret.val = TRUE
              /\ ("success" \in DOMAIN m /\ m["success"][1] # "bool") =>
                    ret.val = TRUE
              /\ ("success" \in DOMAIN m /\ m["success"] = JsonFalse) =>
                    ret.val = FALSE

C16_Witness ==
    /\ ret.call = "is_success"
    /\ ret.val = TRUE
    /\ "success" \in DOMAIN ret.frame.trace[1].metadata
    /\ ret.frame.trace[1].metadata["success"] = JsonStr(<<"false">>)

\* the fields a record must have to parse
RequiredFields == {"id", "session_id", "role", "content", "created_at"}

\* C20: parsing the record written from a trace yields that trace, field for
\* field, whatever the order its metadata members were written in; the
\* record has an embedding field exactly when the trace has an embedding;
\* a record without a metadata field parses to empty metadata.
C20_SerializationRoundTrip ==
    /\ ret.call = "from_str" =>
          /\ ret.val # None
          /\ \A k \in {"id", "session_id", "role", "content", "metadata",
                         "created_at", "embedding"} :
                ret.val[1][k] = ret.frame.trace[1][k]
    /\ ret.call = "to_string" =>
          /\ "embedding" \in DOMAIN ret.val.obj <=>
                ret.frame.trace[1].embedding # None
          /\ RequiredFields \cup {"metadata"} \subseteq DOMAIN ret.val.obj
    /\ (/\ ret.call = "from_str_record"
        /\ ret.frame.lines[1].kind = "json"
        /\ RequiredFields \subseteq DOMAIN ret.frame.lines[1].obj
        /\ "metadata" \notin DOMAIN ret.frame.lines[1].obj) =>
          /\ ret.ok
          /\ DOMAIN ret.val[1].metadata = {}

C20_Witness ==
    /\ ret.call = "from_str"
    /\ ret.val = Some(ret.frame.trace[1])
    /\ ret.val[1].embedding # None
    /\ ret.val[1].created_at = 1
    /\ Len(ret.frame.lines[1].obj["metadata"]) = 2
    /\ ret.frame.lines[1].obj["metadata"][1][1] = "tokens_used"

\* t comes no later than u in the order of search for q: the more relevant
\* first, and of two equally relevant traces the newer first
RankedBefore(t, u, q) ==
    \/ FtsScore(t.content, q) > FtsScore(u.content, q)
    \/ /\ FtsScore(t.content, q) = FtsScore(u.content, q)
       /\ t.created_at >= u.created_at

\* C17: a search with a non-empty query returns its matches by descending
\* relevance, equally relevant traces newest first, and the matches that
\* `limit` cuts off are the last ones of that order.
C17_SearchOrder ==
    \A a \in Stores : \A q \in Queries : \A limit \in 0..Len(traces) :
        /\ \A so \in BOOLEAN : \A r \in search(session_id[a], q, limit, so) :
              \A i \in 1..Len(r) : \A j \in (i + 1)..Len(r) :
                  RankedBefore(r[i], r[j], q)
        /\ \A r \in search(session_id[a], q, limit, FALSE) :
              /\ Len(r) = Min(limit, Cardinality(Matches(q)))
              /\ Range(r) \subseteq Matches(q)
              /\ \A t \in Matches(q) \ Range(r) :
                    \A i \in 1..Len(r) : RankedBefore(r[i], t, q)

C17_Witness ==
    \E a \in Stores : \E q \in Queries :
        \E r \in search(session_id[a], q, 2, FALSE) :
            /\ Len(r) = 2
            /\ FtsScore(r[1].content, q) = FtsScore(r[2].content, q)
            /\ r[1].created_at > r[2].created_at
            /\ search(session_id[a], q, 1, FALSE) = {<<r[1]>>}

\* caller a opens its store in this step
Opens(a) == ~Opened(a) /\ session_id'[a] # NoStore

\* C18: a store opened with a supplied session id is bound to that id, one
\* opened without to a fresh id; the session row is created only if absent,
\* an existing session keeps its row and all traces stay, so recent on the
\* new store returns the traces logged earlier under that id.
C18_OpenIdempotent ==
    /\ [][\A a \in Callers : Opens(a) =>
            LET sid == session_id'[a]
                supplied == ret'.frame.input
            IN  /\ ret'.caller = a /\ ret'.call = "new" /\ ret'.ok
                /\ supplied # None => sid = supplied[1]
                /\ supplied = None =>
                      /\ sid \notin DOMAIN sessions
                      /\ \A b \in Callers : session_id[b] # sid
                /\ DOMAIN sessions' = DOMAIN sessions \cup {sid}
                /\ \A s \in DOMAIN sessions : sessions'[s] = sessions[s]
                /\ sid \notin DOMAIN sessions => sessions'[sid].summary = None
                /\ traces' = traces]_vars
    /\ []((ret.call = "new" /\ ret.ok /\ OnlyLogTurns(ret.val)) =>
            recent(ret.val, Len(HistOf(ret.val).written)) =
                {HistOf(ret.val).written})

C18_Witness ==
    /\ ret.call = "new"
    /\ ret.ok
    /\ ret.frame.input = Some(ret.val)
    /\ sessions[ret.val].summary # None
    /\ HistOf(ret.val).written # << >>
    /\ recent(ret.val, 1) = {HistOf(ret.val).written}

\* the user turns chat has logged to session sid: chat alone attaches the
\* number of recalled traces to the user turn it logs
ChatUserTurns(sid) ==
    {i \in 1..Len(HistOf(sid).written) :
        /\ HistOf(sid).written[i].role = "user"
        /\ "recalled_traces" \in DOMAIN HistOf(sid).written[i].metadata}

\* C19: between chat calls, turn_count() is the number of user turns chat
\* has logged to the store, one per chat call whose log_turn of the user
\* message returned Ok.
C19_TurnCounter ==
    \A a \in Callers :
        (agent[a].built /\ Idle(a) /\ OnlyLogTurns(session_id[a])) =>
            agent[a].turn_count = Cardinality(ChatUserTurns(session_id[a]))

\* ms is ts with every trace reduced to its role and content
Projected(ms, ts) ==
    /\ Len(ms) = Len(ts)
    /\ \A i \in 1..Len(ts) :
          /\ DOMAIN ms[i] = {"role", "content"}
          /\ ms[i].role = ts[i].role
          /\ ms[i].content = ts[i].content

\* C21: for every store and every n, the results of recent_messages(n) are
\* the results of recent(n) with each trace reduced to (role, content): same
\* length, same order, the i-th message from the i-th trace; a call of
\* recent_messages returns such a sequence.
C21_RecentMessagesProjection ==
    /\ \A a \in Stores : \A n \in 0..(Len(traces) + 1) :
          /\ \A ms \in recent_messages(session_id[a], n) :
                \E ts \in recent(session_id[a], n) : Projected(ms, ts)
          /\ \A ts \in recent(session_id[a], n) :
                \E ms \in recent_messages(session_id[a], n) : Projected(ms, ts)
    /\ (ret.call = "recent_messages" /\ ret.ok) =>
          \E n \in 0..MaxLimit : \E ts \in recent(session_id[ret.caller], n) :
              Projected(ret.val, ts)

C21_Witness ==
    /\ ret.call = "recent_messages"
    /\ ret.ok
    /\ Len(ret.val) = 1
    /\ \E ts \in recent(session_id[ret.caller], 1) :
          /\ Len(ts) = 1
          /\ ts[1].metadata # EmptyMeta
          /\ ret.val = <<Message(ts[1].role, ts[1].content)>>

\* caller a is inside a chat call before or after this step
InChat(a) == frame[a].call = "chat" \/ frame'[a].call = "chat"

\* the traces the call of a has logged so far, after this step
LoggedAfter(a) ==
    IF pc'[a] = "idle" THEN ret'.frame.logged ELSE frame'[a].logged

\* C22: a chat call that returns a reply has appended exactly two traces,
\* both to the active session: a user trace with the input as content and
\* recalled_traces = the number of recalled traces (at most recall_top_k),
\* then an assistant trace with the reply as content and success = true, a
\* duration_ms number and tokens_used = null; recent() gives them in that order.
C22_ChatAppendsTwoTraces ==
    /\ [][\A a \in Callers : InChat(a) =>
            \/ traces' = traces /\ LoggedAfter(a) = frame[a].logged
            \/ /\ Len(LoggedAfter(a)) = Len(frame[a].logged) + 1
               /\ LET t == LoggedAfter(a)[Len(LoggedAfter(a))]
                  IN  /\ LoggedAfter(a) = Append(frame[a].logged, t)
                      /\ Len(traces') = Len(traces) + 1
                      /\ SubSeq(traces', 1, Len(traces)) = traces
                      /\ row_to_trace(traces'[Len(traces')]) = t
                      /\ t.session_id = session_id[a]]_vars
    /\ []((ret.call = "chat" /\ ret.ok) =>
            LET a == ret.caller
                logged == ret.frame.logged
            IN  /\ Len(logged) = 2
                /\ logged[1].role = "user"
                /\ logged[1].content = ret.frame.input
                /\ DOMAIN logged[1].metadata = {"recalled_traces"}
                /\ logged[1].metadata["recalled_traces"] =
                      <<"num", Len(ret.frame.relevant)>>
                /\ Len(ret.frame.relevant) <= agent[a].recall_top_k
                /\ logged[2].role = "assistant"
                /\ logged[2].content = ret.val
                /\ DOMAIN logged[2].metadata =
                      {"duration_ms", "success", "tokens_used"}
                /\ logged[2].metadata["success"] = JsonTrue
                /\ logged[2].metadata["duration_ms"][1] = "num"
                /\ logged[2].metadata["tokens_used"] = JsonNull
                /\ recent(session_id[a], 2) = {logged})

C22_Witness ==
    /\ ret.call = "chat"
    /\ ret.ok
    /\ Len(ret.frame.relevant) = 1
    /\ Len(traces) = 4
    /\ recent(session_id[ret.caller], 2) = {ret.frame.logged}

\* C23: the context chat passes to the generation is one system block with
\* one entry per recalled trace, in retrieval order, when the recall search
\* returned a trace, and the empty sequence when it returned none (as it
\* does whenever recall_top_k = 0).
C23_RecallContext ==
    \A a \in Callers :
        /\ pc[a] = "log_user" =>
              /\ frame[a].relevant \in
                    search(session_id[a], frame[a].input,
                           agent[a].recall_top_k, FALSE)
              /\ agent[a].recall_top_k = 0 => frame[a].relevant = << >>
        /\ pc[a] \in {"log_user", "touch_user", "generate"} =>
              LET relevant == frame[a].relevant
                  context == frame[a].context
              IN  IF relevant = << >>
                  THEN context = << >>
                  ELSE /\ Len(context) = 1
                       /\ context[1].role = "system"
                       /\ Len(context[1].content) = Len(relevant)
                       /\ \A i \in 1..Len(relevant) :
                             /\ context[1].content[i][1] = i
                             /\ context[1].content[i][3] = relevant[i].role
                             /\ context[1].content[i][4] = relevant[i].content
                             /\ context[1].content[i][2] =
                                   relevant[i].created_at \div 120

C23_Witness ==
    \E a \in Callers :
        /\ pc[a] = "generate"
        /\ Len(frame[a].relevant) = 2
        /\ frame[a].relevant[1] # frame[a].relevant[2]
        /\ Len(frame[a].context) = 1
        /\ Len(frame[a].context[1].content) = 2

\* the rows of session sid, by position in the table
RowsOf(sid) == {i \in 1..Len(traces) : traces[i].session_id = sid}

LogTurnInserts(a) == pc[a] = "idle" /\ pc'[a] = "touch"

\* caller a ends a log_turn it called directly, with Ok
LogTurnReturnsOk(a) ==
    pc[a] = "touch" /\ pc'[a] = "idle" /\ ret'.caller = a /\ ret'.ok

\* C25: a successful log_turn on a store bound to S appends exactly one
\* trace, of session S and with the role, content and metadata passed in,
\* returns that trace as stored, and changes nothing in the sessions but the
\* updated_at of S: no other trace, no summary, no row of another session.
C25_LogTurnFrame ==
    /\ [][\A a \in Callers :
            /\ LogTurnInserts(a) =>
                  /\ sessions' = sessions
                  /\ Len(traces') = Len(traces) + 1
                  /\ SubSeq(traces', 1, Len(traces)) = traces
                  /\ traces'[Len(traces')].session_id = session_id[a]
                  /\ row_to_trace(traces'[Len(traces')]) = frame'[a].trace[1]
            /\ LogTurnReturnsOk(a) =>
                  /\ traces' = traces
                  /\ ret'.val = frame[a].trace[1]
                  /\ DOMAIN sessions' = DOMAIN sessions
                  /\ \A s \in DOMAIN sessions :
                        /\ sessions'[s].summary = sessions[s].summary
                        /\ s # session_id[a] => sessions'[s] = sessions[s]]_vars
    /\ []((ret.call = "log_turn" /\ ret.ok) =>
            /\ ret.val.session_id = session_id[ret.caller]
            /\ ret.val.role = ret.frame.args[1].role
            /\ ret.val.content = ret.frame.args[1].content
            /\ ret.val.metadata = ret.frame.args[2]
            /\ Cardinality({i \in 1..Len(traces) :
                              traces[i].id = ret.val.id}) = 1
            /\ \E i \in 1..Len(traces) :
                  /\ traces[i].id = ret.val.id
                  /\ row_to_trace(traces[i]).created_at = ret.val.created_at
                  /\ row_to_trace(traces[i]) = ret.val)

C25_Witness ==
    /\ ret.call = "log_turn"
    /\ ret.ok
    /\ Stored(ret.val)
    /\ sessions[session_id[ret.caller]].summary # None
    /\ sessions[session_id[ret.caller]].updated_at > 0
    /\ \E s \in DOMAIN sessions :
          s # session_id[ret.caller] /\ sessions[s].updated_at = 0

\* the statements of chat, in the order of the code
ChatOrder ==
    <<"idle", "log_user", "touch_user", "generate", "log_assistant",
      "touch_assistant", "summarize", "sum_generate", "sum_update">>

\* the position of a statement in that order
ChatPosition(p) == CHOOSE i \in 1..Len(ChatOrder) : ChatOrder[i] = p

\* the ids of a sequence of traces
Ids(ts) == {ts[i].id : i \in 1..Len(ts)}

\* C26: the steps of one chat call come strictly in the order search, user
\* log, generation, assistant log, counter increment, summarization (if
\* due), return; so the recalled traces never hold a trace logged by the
\* same call, and the transcript of an automatic summarization ends with
\* the user and the assistant trace of the call that triggered it.
C26_ChatStepOrder ==
    /\ [][\A a \in Callers : InChat(a) =>
            /\ \/ pc'[a] = "idle"
               \/ ChatPosition(pc'[a]) = ChatPosition(pc[a]) + 1
            /\ agent'[a].turn_count # agent[a].turn_count =>
                  /\ pc[a] = "touch_assistant"
                  /\ Len(frame[a].logged) = 2
                  /\ agent'[a].turn_count = agent[a].turn_count + 1
            /\ pc'[a] \in {"summarize", "sum_generate", "sum_update"} =>
                  agent'[a].turn_count = agent'[a].auto[Len(agent'[a].auto)]
            /\ (pc'[a] = "idle" /\ ret'.ok) =>
                  \/ pc[a] = "touch_assistant"
                       /\ agent'[a].turn_count = agent[a].turn_count + 1
                  \/ pc[a] \in {"summarize", "sum_generate", "sum_update"}]_vars
    /\ [](\A a \in Callers : frame[a].call = "chat" =>
            LET f == frame[a]
            IN  /\ Ids(f.relevant) \cap Ids(f.logged) = {}
                /\ pc[a] = "log_user" => f.logged = << >>
                /\ pc[a] \in {"touch_user", "generate", "log_assistant"} =>
                      /\ Len(f.logged) = 1
                      /\ f.logged[1].role = "user"
                /\ pc[a] = "log_assistant" => f.stage = "assistant"
                /\ pc[a] \in {"touch_assistant", "summarize", "sum_generate",
                              "sum_update"} =>
                      /\ Len(f.logged) = 2
                      /\ f.logged[2].role = "assistant"
                      /\ f.logged[2].content = f.response
                /\ pc[a] = "sum_generate" =>
                      /\ Len(f.transcript) >= 2
                      /\ LastK(f.transcript, 2) =
                            << <<"user", f.input>>, <<"assistant", f.response>> >>)
    /\ []((ret.call = "chat" /\ ret.ok) =>
            /\ Len(ret.frame.logged) = 2
            /\ Ids(ret.frame.relevant) \cap Ids(ret.frame.logged) = {})

C26_Witness ==
    /\ ret.call = "chat"
    /\ ret.ok
    /\ ret.frame.summarized = "ok"
    /\ Len(ret.frame.transcript) = 4
    /\ Len(ret.frame.relevant) >= 1

\* the orchestrators configured never to summarize on their own
NeverSummarizing == {a \in Callers : agent[a].built /\ agent[a].summarize_every = 0}

\* C27: with summarize_every = 0 chat never invokes the summarization and
\* never writes the session summary, and a call whose search, two log
\* writes and generation succeed returns its reply: the only errors are
\* those of the search, the log writes and the generation.
C27_ZeroIntervalNeverSummarizes ==
    /\ [](\A a \in NeverSummarizing :
            /\ agent[a].auto = << >>
            /\ frame[a].call = "chat" =>
                  /\ pc[a] \notin {"summarize", "sum_generate", "sum_update"}
                  /\ frame[a].summarized = "no")
    /\ []((ret.call = "chat" /\ ret.caller \in NeverSummarizing) =>
            /\ ret.frame.summarized = "no"
            /\ ret.frame.transcript = << >>
            /\ ret.ok => ret.val = ret.frame.response
            /\ ~ret.ok =>
                  \/ ret.err = "Rig" /\ Len(ret.frame.logged) = 1
                  \/ ret.err = "Database")
    /\ [][\A a \in NeverSummarizing : InChat(a) =>
            /\ \A sid \in DOMAIN sessions :
                  sessions'[sid].summary = sessions[sid].summary
            /\ pc[a] = "touch_assistant" =>
                  \/ /\ ret'.ok
                     /\ ret'.val = frame[a].response
                     /\ agent'[a].turn_count = agent[a].turn_count + 1
                  \/ /\ ~ret'.ok
                     /\ ret'.err = "Database"
                     /\ sessions' = sessions
                     /\ agent' = agent]_vars

C27_Witness ==
    /\ ret.call = "chat"
    /\ ret.ok
    /\ ret.caller \in NeverSummarizing
    /\ agent[ret.caller].turn_count = 2
    /\ sessions[session_id[ret.caller]].summary = None

\* the queries of the store
ReadCalls == {"search", "recent", "recent_messages"}

\* caller a makes a call of ReadCalls in this step
Reads(a) ==
    /\ Idle(a)
    /\ budget' = budget - 1
    /\ ret'.caller = a
    /\ ret'.call \in ReadCalls

\* C28: search, recent and recent_messages, succeeding or failing, leave
\* every trace and every session row as they were, and the turn counter
\* changes in no step but a step of chat: not in summarize(), not in any
\* operation called on the store.
C28_ReadsAreReadOnly ==
    [][\A a \in Callers :
         /\ Reads(a) =>
               /\ traces' = traces
               /\ sessions' = sessions
               /\ agent' = agent
         /\ agent'[a].turn_count # agent[a].turn_count => frame[a].call = "chat"
         /\ (frame[a].call \notin {"none", "chat"}
               \/ frame'[a].call \notin {"none", "chat"}) =>
               agent'[a].turn_count = agent[a].turn_count]_vars

C28_Witness ==
    /\ ret.call = "search"
    /\ ret.ok
    /\ Len(ret.val) = 1
    /\ agent[ret.caller].turn_count = 1
    /\ sessions[session_id[ret.caller]].summary # None

\* the orchestrators, when they are bound to sessions all distinct
Orchestrators == {a \in Callers : Opened(a) /\ agent[a].built}

DistinctSessions ==
    \A a, b \in Orchestrators : a # b => session_id[a] # session_id[b]

\* row j is the row of its session just before row i
PrecedesInSession(j, i) ==
    /\ j < i
    /\ traces[j].session_id = traces[i].session_id
    /\ \A k \in (j + 1)..(i - 1) : traces[k].session_id # traces[i].session_id

\* caller a inserts the assistant trace of its chat call in this step
LogsAssistant(a) == pc[a] = "log_assistant" /\ pc'[a] = "touch_assistant"

\* C29: two orchestrators bound to distinct sessions of one database, their
\* chat steps interleaving: the rows of a session are in chronological
\* order, in every session each assistant trace comes right after the user
\* trace of the same chat call, and the rows of a session are exactly the
\* traces logged through the orchestrator bound to it.
C29_InterleavedChats ==
    /\ [](DistinctSessions =>
            /\ \A i, j \in 1..Len(traces) :
                  (i < j /\ traces[i].session_id = traces[j].session_id) =>
                      row_to_trace(traces[i]).created_at
                        < row_to_trace(traces[j]).created_at
            /\ \A i \in 1..Len(traces) : traces[i].role = "assistant" =>
                  \E j \in 1..(i - 1) :
                      /\ PrecedesInSession(j, i)
                      /\ traces[j].role = "user"
            /\ \A a \in Orchestrators :
                  /\ {traces[i].id : i \in RowsOf(session_id[a])} =
                        Ids(HistOf(session_id[a]).written)
                  /\ \A i \in 1..Len(frame[a].logged) :
                        /\ frame[a].logged[i].session_id = session_id[a]
                        /\ \E r \in RowsOf(session_id[a]) :
                              traces[r].id = frame[a].logged[i].id)
    /\ [][DistinctSessions =>
            \A a \in Orchestrators : LogsAssistant(a) =>
                /\ traces'[Len(traces')].session_id = session_id[a]
                /\ traces'[Len(traces')].role = "assistant"
                /\ SubSeq(traces', 1, Len(traces)) = traces
                /\ \E j \in RowsOf(session_id[a]) :
                      /\ \A k \in RowsOf(session_id[a]) : k <= j
                      /\ row_to_trace(traces[j]) = frame[a].logged[1]
                      /\ traces[j].role = "user"]_vars

C29_Witness ==
    /\ DistinctSessions
    /\ Cardinality(Orchestrators) = 2
    /\ Len(traces) = 4
    /\ traces[1].session_id # traces[2].session_id
    /\ traces[1].role = "user" /\ traces[2].role = "user"
    /\ traces[3].session_id = traces[1].session_id
    /\ traces[3].role = "assistant" /\ traces[4].role = "assistant"

\* the columns of a row of traces
TraceColumns ==
    {"id", "session_id", "role", "content", "metadata", "created_at",
     "embedding"}

\* caller a's log_turn returns an error from its INSERT in this step
LogTurnInsertFails(a) ==
    /\ Idle(a)
    /\ budget' = budget - 1
    /\ ret'.caller = a
    /\ ret'.call = "log_turn"
    /\ ~ret'.ok

\* caller a's log_turn returns an error from its UPDATE in this step
LogTurnUpdateFails(a) ==
    pc[a] = "touch" /\ pc'[a] = "idle" /\ ret'.caller = a /\ ~ret'.ok

\* C30: log_turn inserts the trace and touches the session in two steps.
\* A failing insert returns an error with no trace and no updated_at
\* changed; a failing update returns an error while the whole trace is
\* stored and recent() shows it.  Every stored row has all its columns.
C30_LogTurnTwoSteps ==
    /\ [][\A a \in Callers :
            /\ LogTurnInsertFails(a) =>
                  /\ ret'.err = "Database"
                  /\ ret'.val = << >>
                  /\ traces' = traces
                  /\ sessions' = sessions
            /\ LogTurnUpdateFails(a) =>
                  /\ ret'.err = "Database"
                  /\ ret'.val = << >>
                  /\ traces' = traces
                  /\ sessions' = sessions
                  /\ \E i \in 1..Len(traces) :
                        traces[i] = TraceToRow(frame[a].trace[1])]_vars
    /\ [](\A i \in 1..Len(traces) :
            /\ DOMAIN traces[i] = TraceColumns
            /\ traces[i].role \in Roles
            /\ traces[i].session_id \in DOMAIN sessions
            /\ row_to_trace(traces[i]) \in
                  Range(HistOf(traces[i].session_id).written))
    /\ [](\A a \in Callers : pc[a] = "touch" =>
            LET t == frame[a].trace[1]
            IN  /\ \E i \in 1..Len(traces) : row_to_trace(traces[i]) = t
                /\ \A r \in recent(session_id[a], Len(traces)) :
                      t \in Range(r))
    /\ []((ret.call = "log_turn" /\ ~ret.ok /\ ret.frame.trace # None) =>
            LET t == ret.frame.trace[1]
            IN  /\ \E i \in 1..Len(traces) : row_to_trace(traces[i]) = t
                /\ \A r \in recent(session_id[ret.caller], Len(traces)) :
                      t \in Range(r))

C30_Witness ==
    /\ ret.call = "log_turn"
    /\ ~ret.ok
    /\ ret.frame.trace # None
    /\ recent(session_id[ret.caller], 1) = {ret.frame.trace}
    /\ sessions[session_id[ret.caller]].updated_at = 0
    /\ clock = 1

====
